---- MODULE Spec2Model ----
(***************************************************************************)
(* RandomMotion (torchio/transforms/augmentation/intensity/                *)
(* random_motion.py): sampling of the motion events, construction of the   *)
(* rigid transforms, resampling, and splicing of the k-space spectra.      *)
(*                                                                         *)
(* Python lists and arrays are functions over 0..n-1, as in the code.      *)
(* A time is the numerator of a fraction whose denominator is tden.        *)
(* Physical points are in half millimetres, so that size / 2 is integral.  *)
(***************************************************************************)
EXTENDS Integers, Sequences, FiniteSets, TLC

VARIABLES
    pc,                  \* position in apply_transform and its callees
    degrees_range,       \* self.degrees_range, <<lo, hi>> in degrees
    translation_range,   \* self.translation_range, <<lo, hi>> in mm
    num_transforms,      \* self.num_transforms
    probability,         \* self.proportion_to_augment, numerator over RandDen
    perturbation,        \* perturbation argument of get_params, <<numerator, denominator>>
    sample,              \* the sample: list of image dictionaries
    sample_in,           \* the sample as it was passed to apply_transform
    image_name,          \* index of the image the loop of apply_transform is at
    times,               \* times_params / times
    tden,                \* denominator of the entries of times
    degrees_params,      \* N x 3 degrees
    translation_params,  \* N x 3 millimetres
    do_it,               \* the sampled decision
    rng_draws,           \* number of values the random generator has produced
    error,               \* the exception raised, or NoError
    image,               \* the sitk image handed to get_rigid_transforms / add_artifact
    transforms,          \* list of Euler3DTransform
    images,              \* resample_images' result
    spectra,             \* list of spectra (objects with an identity)
    indices,             \* band boundaries of add_artifact
    bands,               \* the <<ini, fin>> slices add_artifact copied, in order
    result_spectrum,     \* the composite spectrum
    result_image,        \* add_artifact's return value
    calls                \* how often transforms were built, images resampled, spectra computed

vars == <<pc, degrees_range, translation_range, num_transforms, probability,
          perturbation, sample, sample_in, image_name, times, tden,
          degrees_params, translation_params, do_it, rng_draws, error, image,
          transforms, images, spectra, indices, bands, result_spectrum,
          result_image, calls>>

(***************************************************************************)
(* Bounds of the model.                                                    *)
(***************************************************************************)
MaxN == 3        \* largest num_transforms, and most events sampled by one apply_transform
MaxL == 4        \* largest length of the spliced axis
TDen == 4        \* resolution of the times given directly to add_artifact
K == 4           \* resolution of the noise inside one step of get_params
MaxImages == 2   \* largest number of entries of a sample

RandDen == 2     \* torch.rand(1) is r / RandDen, r in 0..RandDen-1
SizeXY == 2      \* size of the images along the two axes that are not spliced

None == <<>>
NoError == "none"

Min(a, b) == IF a < b THEN a ELSE b
Max(a, b) == IF a > b THEN a ELSE b
Abs(a) == IF a < 0 THEN -a ELSE a

\* Length of a Python list modelled as a function over 0..n-1
len(list) == Cardinality(DOMAIN list)

\* list + [x]
append(list, x) ==
    [i \in 0..len(list) |-> IF i < len(list) THEN list[i] ELSE x]

\* list[1:]
tail(list) == [i \in 0..(len(list) - 2) |-> list[i + 1]]

(***************************************************************************)
(* 3-vectors and 3x3 matrices over the integers.                           *)
(***************************************************************************)
Zero3 == <<0, 0, 0>>
Eye3 == << <<1, 0, 0>>, <<0, 1, 0>>, <<0, 0, 1>> >>

VecAdd(a, b) == [i \in 1..3 |-> a[i] + b[i]]
VecSub(a, b) == [i \in 1..3 |-> a[i] - b[i]]
VecScale(s, a) == [i \in 1..3 |-> s * a[i]]
MatVec(m, v) == [i \in 1..3 |-> m[i][1] * v[1] + m[i][2] * v[2] + m[i][3] * v[3]]
MatMul(a, b) ==
    [i \in 1..3 |-> [j \in 1..3 |->
        a[i][1] * b[1][j] + a[i][2] * b[2][j] + a[i][3] * b[3][j]]]

(***************************************************************************)
(* sitk.Euler3DTransform.  Angles are multiples of 90 degrees, for which   *)
(* np.radians followed by the cosine and sine is exact.  The transform     *)
(* maps x to matrix (x - center) + center + translation.                   *)
(***************************************************************************)
Cos(d) == LET q == (d \div 90) % 4 IN
    IF q = 0 THEN 1 ELSE IF q = 2 THEN -1 ELSE 0
Sin(d) == LET q == (d \div 90) % 4 IN
    IF q = 1 THEN 1 ELSE IF q = 3 THEN -1 ELSE 0

RotX(d) == << <<1, 0, 0>>, <<0, Cos(d), -Sin(d)>>, <<0, Sin(d), Cos(d)>> >>
RotY(d) == << <<Cos(d), 0, Sin(d)>>, <<0, 1, 0>>, <<-Sin(d), 0, Cos(d)>> >>
RotZ(d) == << <<Cos(d), -Sin(d), 0>>, <<Sin(d), Cos(d), 0>>, <<0, 0, 1>> >>

\* sitk.Euler3DTransform()
Euler3DTransform == [center |-> Zero3, matrix |-> Eye3, translation |-> Zero3]

SetCenter(t, c) == [t EXCEPT !.center = c]
\* SetRotation(angleX, angleY, angleZ), ITK's default order Z X Y
SetRotation(t, d) ==
    [t EXCEPT !.matrix = MatMul(RotZ(d[3]), MatMul(RotX(d[1]), RotY(d[2])))]
SetMatrix(t, m) == [t EXCEPT !.matrix = m]
\* translations are in mm, points in half mm
SetTranslation(t, v) == [t EXCEPT !.translation = VecScale(2, v)]
GetTranslation(t) == [i \in 1..3 |-> t.translation[i] \div 2]

TransformPoint(t, x) ==
    VecAdd(VecAdd(MatVec(t.matrix, VecSub(x, t.center)), t.center), t.translation)

\* The affine map a transform stands for: x |-> matrix x + offset
Mapping(t) ==
    <<t.matrix, VecAdd(VecSub(t.center, MatVec(t.matrix, t.center)), t.translation)>>

IdentityMapping == <<Eye3, Zero3>>

\* image.TransformContinuousIndexToPhysicalPoint(np.array(image.GetSize()) / 2),
\* unit spacing and identity direction; the result is in half mm
center_lps(im) == VecAdd(VecScale(2, im.origin), im.size)

\* RandomMotion.transform_to_matrix: a 4 x 4 matrix from GetMatrix and GetTranslation
transform_to_matrix(t) ==
    LET tr == GetTranslation(t) IN
    << <<t.matrix[1][1], t.matrix[1][2], t.matrix[1][3], tr[1]>>,
       <<t.matrix[2][1], t.matrix[2][2], t.matrix[2][3], tr[2]>>,
       <<t.matrix[3][1], t.matrix[3][2], t.matrix[3][3], tr[3]>>,
       <<0, 0, 0, 1>> >>

\* RandomMotion.matrix_to_transform: a fresh Euler3DTransform with the
\* matrix's rotation and translation
matrix_to_transform(m) ==
    SetTranslation(
        SetMatrix(Euler3DTransform,
                  [i \in 1..3 |-> [j \in 1..3 |-> m[i][j]]]),
        [i \in 1..3 |-> m[i][4]])

\* np.eye(4)
Eye4 == << <<1, 0, 0, 0>>, <<0, 1, 0, 0>>, <<0, 0, 1, 0>>, <<0, 0, 0, 1>> >>

\* the body of the loop of get_rigid_transforms: the transform of one event
motion(degrees, translation, im) ==
    SetTranslation(SetRotation(SetCenter(Euler3DTransform, center_lps(im)), degrees),
                   translation)

\* RandomMotion.get_rigid_transforms: the list the method returns
rigid_transforms(degs, trans, im) ==
    LET matrices == [i \in 0..len(degs) |->
            IF i = 0 THEN Eye4
            ELSE transform_to_matrix(motion(degs[i - 1], trans[i - 1], im))]
    IN [i \in DOMAIN matrices |-> matrix_to_transform(matrices[i])]

(***************************************************************************)
(* Arrays.  A volume is written by the planes of its spectrum along the    *)
(* spliced axis: plane p of the volume obtained from base volume b under   *)
(* the map m is <<b, m, p>>.  A negative b is a volume with negative       *)
(* intensities, and -b is its magnitude.                                   *)
(***************************************************************************)
Plane(b, m, p) == <<b, m, p>>
Uninitialized(p) == <<0, IdentityMapping, p>>

PureArray(b, m, L) == [dom |-> "image", c |-> [p \in 0..(L - 1) |-> Plane(b, m, p)]]

\* sitk.ResampleImageFilter.Execute on the reference grid of the image
Resample(im, t) ==
    IF Mapping(t) = IdentityMapping THEN im
    ELSE [im EXCEPT !.array.c =
            [p \in DOMAIN im.array.c |->
                Plane(im.array.c[p][1], Mapping(t), p)]]

\* RandomMotion.resample_images
resample_images_list(im, trs) ==
    LET rest == tail(trs) IN
    [i \in 0..len(rest) |-> IF i = 0 THEN im ELSE Resample(im, rest[i - 1])]

\* Transform.fourier_transform and inv_fourier_transform
fourier_transform(array) == [dom |-> "kspace", c |-> array.c]
inv_fourier_transform(spectrum) ==
    [dom |-> "image",
     c |-> [p \in DOMAIN spectrum.c |->
              <<Abs(spectrum.c[p][1]), spectrum.c[p][2], spectrum.c[p][3]>>]]

(***************************************************************************)
(* RandomMotion.sort_spectra                                               *)
(***************************************************************************)
\* Late with >= in place of >
Late_inclusive(ts, den) == {i \in DOMAIN ts : 2 * ts[i] >= den}

\* times > 0.5, elementwise
Late(ts, den) == {i \in DOMAIN ts : 2 * ts[i] > den}

SetMin(S) == CHOOSE x \in S : \A y \in S : x <= y

\* sort_index taking the position in times for a 1-based slot number
sort_index_one_based(spec, ts, den) ==
    IF Late(ts, den) # {} THEN SetMin(Late(ts, den)) + 1 ELSE len(spec) - 1

sort_index(spec, ts, den) ==
    IF Late(ts, den) # {} THEN SetMin(Late(ts, den)) ELSE len(spec) - 1

\* spectra[0], spectra[index] = spectra[index], spectra[0]
swap(list, i, j) ==
    [n \in DOMAIN list |-> IF n = i THEN list[j] ELSE IF n = j THEN list[i] ELSE list[n]]

(***************************************************************************)
(* RandomMotion.add_artifact, lines 213-220                                *)
(***************************************************************************)
\* astype_int rounding to the nearest integer
astype_int_rounding(num, den) == (2 * num + den) \div (2 * den)

\* float -> int conversion of astype(int): truncation towards zero
astype_int(num, den) == IF num >= 0 THEN num \div den ELSE -((-num) \div den)

\* band_indices without the final boundary
band_indices_open(L, ts, den) == [i \in DOMAIN ts |-> astype_int(L * ts[i], den)]

band_indices(L, ts, den) ==
    append([i \in DOMAIN ts |-> astype_int(L * ts[i], den)], L)

\* The positions a Python slice ini:fin selects on an axis of length L
slice_bound(i, L) == IF i < 0 THEN Max(i + L, 0) ELSE Min(i, L)
\* slice with the first position left out
slice_exclusive(ini, fin, L) ==
    {p \in 0..(L - 1) : slice_bound(ini, L) < p /\ p < slice_bound(fin, L)}

slice(ini, fin, L) ==
    {p \in 0..(L - 1) : slice_bound(ini, L) <= p /\ p < slice_bound(fin, L)}

\* ini before the j-th iteration of the loop
band_ini(idx, j) == IF j = 0 THEN 0 ELSE idx[j - 1]

\* the <<ini, fin>> pairs of the loop: zip stops at the shorter list
band_list(spec, idx) ==
    [j \in 0..(Min(len(spec), len(idx)) - 1) |-> <<band_ini(idx, j), idx[j]>>]

RECURSIVE copy_bands(_, _, _, _, _)
copy_bands(result, spec, bnds, L, j) ==
    IF j >= len(bnds) THEN result
    ELSE copy_bands(
            [p \in DOMAIN result |->
                IF p \in slice(bnds[j][1], bnds[j][2], L)
                THEN spec[j].s.c[p] ELSE result[p]],
            spec, bnds, L, j + 1)

\* np.empty_like(spectra[0]): the memory is not initialised; it may hold
\* anything, for instance what spectra[0] holds
empty_like(spectrum) ==
    { [dom |-> "kspace", c |-> [p \in DOMAIN spectrum.c |-> Uninitialized(p)]],
      spectrum }

(***************************************************************************)
(* The steps of add_artifact.                                              *)
(***************************************************************************)
\* line 208
resample_images ==
    /\ pc = "artifact"
    /\ images' = resample_images_list(image, transforms)
    /\ calls' = [calls EXCEPT !.resample = @ + len(tail(transforms))]
    /\ pc' = "fourier"
    /\ UNCHANGED <<degrees_range, translation_range, num_transforms, probability,
                   perturbation, sample, sample_in, image_name, times, tden,
                   degrees_params, translation_params, do_it, rng_draws, error,
                   image, transforms, spectra, indices, bands, result_spectrum,
                   result_image>>

\* lines 209-211
fourier ==
    /\ pc = "fourier"
    /\ spectra' = [j \in DOMAIN images |->
                     [id |-> j, s |-> fourier_transform(images[j].array)]]
    /\ calls' = [calls EXCEPT !.fourier = @ + len(images)]
    /\ pc' = "sort"
    /\ UNCHANGED <<degrees_range, translation_range, num_transforms, probability,
                   perturbation, sample, sample_in, image_name, times, tden,
                   degrees_params, translation_params, do_it, rng_draws, error,
                   image, transforms, images, indices, bands, result_spectrum,
                   result_image>>

\* line 212 and lines 191-199
sort_spectra ==
    /\ pc = "sort"
    /\ spectra' = swap(spectra, 0, sort_index(spectra, times, tden))
    /\ pc' = "splice"
    /\ UNCHANGED <<degrees_range, translation_range, num_transforms, probability,
                   perturbation, sample, sample_in, image_name, times, tden,
                   degrees_params, translation_params, do_it, rng_draws, error,
                   image, transforms, images, indices, bands, result_spectrum,
                   result_image, calls>>

\* lines 213-220
splice ==
    /\ pc = "splice"
    /\ LET last_index == image.size[3]
           idx == band_indices(last_index, times, tden)
           bnds == band_list(spectra, idx)
       IN /\ indices' = idx
          /\ bands' = bnds
          /\ \E empty \in empty_like(spectra[0].s) :
                result_spectrum' =
                    [empty EXCEPT !.c = copy_bands(empty.c, spectra, bnds, last_index, 0)]
    /\ pc' = "inverse"
    /\ UNCHANGED <<degrees_range, translation_range, num_transforms, probability,
                   perturbation, sample, sample_in, image_name, times, tden,
                   degrees_params, translation_params, do_it, rng_draws, error,
                   image, transforms, images, spectra, result_image, calls>>

\* lines 221-222
inverse ==
    /\ pc = "inverse"
    /\ result_image' = inv_fourier_transform(result_spectrum)
    /\ pc' = "assign"
    /\ UNCHANGED <<degrees_range, translation_range, num_transforms, probability,
                   perturbation, sample, sample_in, image_name, times, tden,
                   degrees_params, translation_params, do_it, rng_draws, error,
                   image, transforms, images, spectra, indices, bands,
                   result_spectrum, calls>>

(***************************************************************************)
(* add_artifact called on an image, a list of transforms and any times.    *)
(***************************************************************************)
DefaultPerturbation == <<3, 10>>

NoCalls == [rigid |-> 0, resample |-> 0, fourier |-> 0]

Bases == {1, -1}

Images ==
    { [array |-> PureArray(b, IdentityMapping, L),
       size |-> <<SizeXY, SizeXY, L>>,
       origin |-> Zero3] : b \in Bases, L \in 1..MaxL }

\* a translation of j mm along the first axis
Shift(j) == SetTranslation(Euler3DTransform, <<j, 0, 0>>)

\* the identity first; the others all the identity, or all different
TransformLists(N) ==
    { [j \in 0..N |-> Euler3DTransform],
      [j \in 0..N |-> IF j = 0 THEN Euler3DTransform ELSE Shift(j)] }

TimeVals == (-1)..(TDen + 1)

InitArtifact ==
    /\ pc = "artifact"
    /\ degrees_range = <<0, 0>>
    /\ translation_range = <<0, 0>>
    /\ num_transforms \in 0..MaxN
    /\ probability = RandDen
    /\ perturbation = DefaultPerturbation
    /\ sample = None
    /\ sample_in = None
    /\ image_name = 0
    /\ times \in [0..(num_transforms - 1) -> TimeVals]
    /\ tden = TDen
    /\ degrees_params = None
    /\ translation_params = None
    /\ do_it = TRUE
    /\ rng_draws = 0
    /\ error = NoError
    /\ image \in Images
    /\ transforms \in TransformLists(num_transforms)
    /\ images = None
    /\ spectra = None
    /\ indices = None
    /\ bands = None
    /\ result_spectrum = None
    /\ result_image = None
    /\ calls = NoCalls

NextArtifact == resample_images \/ fourier \/ sort_spectra \/ splice \/ inverse

SpecArtifact == InitArtifact /\ [][NextArtifact]_vars

(***************************************************************************)
(* RandomMotion.get_params                                                 *)
(***************************************************************************)
\* the values uniform_(lo, hi) can produce, on a grid of the given pitch
Uniform(lo, hi, pitch) == {x \in lo..hi : x % pitch = 0}

\* get_params_array: a tensor of shape (num, 3) filled by uniform_(*nums_range)
get_params_array(nums_range, num, pitch) ==
    [0..(num - 1) -> [1..3 -> Uniform(nums_range[1], nums_range[2], pitch)]]

\* ceil(a / b) for b > 0
Ceil(a, b) == -((-a) \div b)

\* torch.arange(start, end, step)
arange(start, end, step) ==
    [i \in 0..(Ceil(end - start, step) - 1) |-> start + i * step]

\* step = 1 / (num_transforms + 1) is K units of 1 / ((num_transforms + 1) K)
time_denominator(num) == (num + 1) * K

\* baseline_times keeping the first entry and dropping the last
baseline_times_from_zero(num) ==
    LET a == arange(0, time_denominator(num), K) IN [i \in 0..(len(a) - 2) |-> a[i]]

\* torch.arange(0, 1, step)[1:]
baseline_times(num) == tail(arange(0, time_denominator(num), K))

\* noise_values with the noise spanning a whole step
noise_values_whole_step(pert) == {n \in (-K)..K : pert[1] > 0 \/ n = 0}

\* the values of noise.uniform_(-step * perturbation, step * perturbation)
noise_values(pert) == {n \in (-K)..K : Abs(n) * pert[2] <= K * pert[1]}

\* bernoulli with <= in place of <
bernoulli_inclusive(r, prob) == r <= prob

\* torch.rand(1) < probability, for torch.rand(1) = r / RandDen
bernoulli(r, prob) == r < prob

get_params ==
    /\ pc = "params"
    /\ degrees_params' \in get_params_array(degrees_range, num_transforms, 90)
    /\ translation_params' \in get_params_array(translation_range, num_transforms, 1)
    /\ tden' = time_denominator(num_transforms)
    /\ \E noise \in [0..(num_transforms - 1) -> noise_values(perturbation)] :
          LET base == baseline_times(num_transforms) IN
          IF DOMAIN base = DOMAIN noise
          THEN /\ times' = [i \in DOMAIN base |-> base[i] + noise[i]]
               /\ \E r \in 0..(RandDen - 1) : do_it' = bernoulli(r, probability)
               /\ rng_draws' = rng_draws + 7 * num_transforms + 1
               /\ error' = error
               /\ pc' = "store"
          ELSE /\ times' = base
               /\ do_it' = do_it
               /\ rng_draws' = rng_draws + 7 * num_transforms
               /\ error' = "RuntimeError"
               /\ pc' = "raised"
    /\ UNCHANGED <<degrees_range, translation_range, num_transforms, probability,
                   perturbation, sample, sample_in, image_name, image, transforms,
                   images, spectra, indices, bands, result_spectrum, result_image,
                   calls>>

(***************************************************************************)
(* RandomMotion.get_rigid_transforms                                       *)
(***************************************************************************)
get_rigid_transforms ==
    /\ pc = "rigid"
    /\ transforms' = rigid_transforms(degrees_params, translation_params, image)
    /\ calls' = [calls EXCEPT !.rigid = @ + 1]
    /\ pc' = "artifact"
    /\ UNCHANGED <<degrees_range, translation_range, num_transforms, probability,
                   perturbation, sample, sample_in, image_name, times, tden,
                   degrees_params, translation_params, do_it, rng_draws, error,
                   image, images, spectra, indices, bands, result_spectrum,
                   result_image>>

(***************************************************************************)
(* RandomMotion.apply_transform                                            *)
(***************************************************************************)
INTENSITY == "intensity"
LABEL == "label"

\* nib_to_sitk(image_dict[DATA][0], image_dict[AFFINE])
nib_to_sitk(image_dict) ==
    [array |-> image_dict.data, size |-> image_dict.size, origin |-> image_dict.origin]

\* lines 55-65 and 107: the head of the loop, up to the call of get_params
apply_loop ==
    /\ pc = "loop"
    /\ IF image_name >= len(sample)
       THEN /\ pc' = "returned"
            /\ UNCHANGED <<image_name, perturbation>>
       ELSE IF sample[image_name].type # INTENSITY
       THEN /\ image_name' = image_name + 1
            /\ UNCHANGED <<pc, perturbation>>
       ELSE /\ perturbation' = DefaultPerturbation
            /\ pc' = "params"
            /\ UNCHANGED image_name
    /\ UNCHANGED <<degrees_range, translation_range, num_transforms, probability,
                   sample, sample_in, times, tden, degrees_params,
                   translation_params, do_it, rng_draws, error, image, transforms,
                   images, spectra, indices, bands, result_spectrum, result_image,
                   calls>>

\* lines 66-92: the parameters are stored in the sample; the method returns
\* if do_it is false
store_params ==
    /\ pc = "store"
    /\ sample' = [sample EXCEPT ![image_name].params =
                    [random_motion_times |-> <<times, tden>>,
                     random_motion_degrees |-> degrees_params,
                     random_motion_translation |-> translation_params,
                     random_motion_do |-> do_it]]
    /\ IF ~ do_it
       THEN /\ pc' = "returned"
            /\ UNCHANGED image
       ELSE /\ image' = nib_to_sitk(sample[image_name])
            /\ pc' = "rigid"
    /\ UNCHANGED <<degrees_range, translation_range, num_transforms, probability,
                   perturbation, sample_in, image_name, times, tden,
                   degrees_params, translation_params, do_it, rng_draws, error,
                   transforms, images, spectra, indices, bands, result_spectrum,
                   result_image, calls>>

\* lines 98-106: the result replaces the data of the image
assign_data ==
    /\ pc = "assign"
    /\ sample' = [sample EXCEPT ![image_name].data = result_image]
    /\ image_name' = image_name + 1
    /\ pc' = "loop"
    /\ UNCHANGED <<degrees_range, translation_range, num_transforms, probability,
                   perturbation, sample_in, times, tden, degrees_params,
                   translation_params, do_it, rng_draws, error, image, transforms,
                   images, spectra, indices, bands, result_spectrum, result_image,
                   calls>>

(***************************************************************************)
(* The transform as constructed (__init__) and applied to a sample.        *)
(***************************************************************************)
\* the ranges of the model: a range that is not a single value only for at
\* most one event
Configs ==
    { c \in [degrees_range : {<<0, 0>>, <<90, 90>>, <<0, 90>>},
             translation_range : {<<0, 0>>, <<1, 1>>},
             num_transforms : 0..MaxN] :
        /\ c.degrees_range[1] # c.degrees_range[2] => c.num_transforms <= 1
        /\ (c.degrees_range = <<0, 0>>) = (c.translation_range = <<0, 0>>) }

ImageDicts(i) ==
    { [type |-> t,
       data |-> PureArray(i + 1, IdentityMapping, MaxL),
       size |-> <<SizeXY, SizeXY, MaxL>>,
       origin |-> Zero3,
       params |-> None] : t \in {INTENSITY, LABEL} }

Samples ==
    { smp \in UNION { [0..(n - 1) -> UNION {ImageDicts(i) : i \in 0..(n - 1)}] :
                        n \in 1..MaxImages } :
        \A i \in DOMAIN smp : smp[i] \in ImageDicts(i) }

\* the number of events a call of apply_transform samples at most
EventsInAll(smp, num) ==
    num * Cardinality({i \in DOMAIN smp : smp[i].type = INTENSITY})

Init ==
    /\ pc = "loop"
    /\ \E c \in Configs :
          /\ degrees_range = c.degrees_range
          /\ translation_range = c.translation_range
          /\ num_transforms = c.num_transforms
    /\ probability \in 0..RandDen
    /\ perturbation = DefaultPerturbation
    /\ sample \in Samples
    /\ EventsInAll(sample, num_transforms) <= MaxN
    /\ sample_in = sample
    /\ image_name = 0
    /\ times = None
    /\ tden = 1
    /\ degrees_params = None
    /\ translation_params = None
    /\ do_it = FALSE
    /\ rng_draws = 0
    /\ error = NoError
    /\ image = None
    /\ transforms = None
    /\ images = None
    /\ spectra = None
    /\ indices = None
    /\ bands = None
    /\ result_spectrum = None
    /\ result_image = None
    /\ calls = NoCalls

Next ==
    \/ apply_loop
    \/ get_params
    \/ store_params
    \/ get_rigid_transforms
    \/ resample_images
    \/ fourier
    \/ sort_spectra
    \/ splice
    \/ inverse
    \/ assign_data

Spec == Init /\ [][Next]_vars

(***************************************************************************)
(* get_params called on its own, with any perturbation.                    *)
(***************************************************************************)
Perturbations == {<<0, 1>>, DefaultPerturbation, <<2, 5>>, <<1, 2>>, <<1, 1>>}

InitParams ==
    /\ pc = "params"
    /\ \E c \in Configs :
          /\ degrees_range = c.degrees_range
          /\ translation_range = c.translation_range
          /\ num_transforms = c.num_transforms
    /\ probability \in 0..RandDen
    /\ perturbation \in Perturbations
    /\ sample = None
    /\ sample_in = None
    /\ image_name = 0
    /\ times = None
    /\ tden = 1
    /\ degrees_params = None
    /\ translation_params = None
    /\ do_it = FALSE
    /\ rng_draws = 0
    /\ error = NoError
    /\ image = None
    /\ transforms = None
    /\ images = None
    /\ spectra = None
    /\ indices = None
    /\ bands = None
    /\ result_spectrum = None
    /\ result_image = None
    /\ calls = NoCalls

NextParams == get_params

SpecParams == InitParams /\ [][NextParams]_vars

(***************************************************************************)
(* get_rigid_transforms called on its own.                                 *)
(***************************************************************************)
DegreeVectors == {<<0, 0, 0>>, <<90, 0, 0>>, <<0, 90, 0>>, <<0, 0, 90>>, <<0, 0, 180>>}
TranslationVectors == {<<0, 0, 0>>, <<1, 0, 0>>, <<0, -1, 2>>}

InitRigid ==
    /\ pc = "rigid"
    /\ degrees_range = <<0, 180>>
    /\ translation_range = <<-1, 2>>
    /\ num_transforms \in 0..MaxN
    /\ probability = RandDen
    /\ perturbation = DefaultPerturbation
    /\ sample = None
    /\ sample_in = None
    /\ image_name = 0
    /\ times = None
    /\ tden = 1
    /\ degrees_params \in [0..(num_transforms - 1) -> DegreeVectors]
    /\ translation_params \in [0..(num_transforms - 1) -> TranslationVectors]
    /\ do_it = TRUE
    /\ rng_draws = 0
    /\ error = NoError
    /\ image \in Images
    /\ transforms = None
    /\ images = None
    /\ spectra = None
    /\ indices = None
    /\ bands = None
    /\ result_spectrum = None
    /\ result_image = None
    /\ calls = NoCalls

NextRigid == get_rigid_transforms

SpecRigid == InitRigid /\ [][NextRigid]_vars

(***************************************************************************)
(* Properties of the splicer.                                              *)
(***************************************************************************)
NumEvents == len(times)
AxisLength == image.size[3]

InUnit == \A i \in DOMAIN times : 0 < times[i] /\ times[i] < tden
Increasing == \A i, j \in DOMAIN times : i < j => times[i] <= times[j]
StrictlyIncreasing == \A i, j \in DOMAIN times : i < j => times[i] < times[j]

Sorted == pc \in {"splice", "inverse", "assign"}
Spliced == pc \in {"inverse", "assign"}

\* t_0 = 0, t_1 .. t_N = times, t_(N+1) = 1, as numerators over tden
T(j) == IF j = 0 THEN 0 ELSE IF j = NumEvents + 1 THEN tden ELSE times[j - 1]

\* b is num / den with the fraction cut off
IsTruncation(b, num, den) ==
    IF num >= 0 THEN b * den <= num /\ num < (b + 1) * den
    ELSE (b - 1) * den < num /\ num <= b * den

\* b is an integer nearest to num / den
IsNearest(b, num, den) == 2 * Abs(b * den - num) <= den

\* the slots whose range [ini, fin) holds position p
Writers(p) == {j \in DOMAIN bands : bands[j][1] <= p /\ p < bands[j][2]}

\* C1: for an axis of length L >= 1 and N >= 1 increasing times inside (0,1),
\* the N+1 ranges [ini, fin) of add_artifact lie within the axis, are pairwise
\* disjoint and cover [0, L): every position of the composite spectrum is
\* written exactly once, from the slot whose range holds it.
C1_BandCover ==
    (Spliced /\ AxisLength >= 1 /\ NumEvents >= 1 /\ InUnit /\ Increasing) =>
        /\ len(bands) = NumEvents + 1
        /\ \A j \in DOMAIN bands :
              0 <= bands[j][1] /\ bands[j][1] <= bands[j][2] /\ bands[j][2] <= AxisLength
        /\ \A i, j \in DOMAIN bands : i # j =>
              ~ \E p \in 0..(AxisLength - 1) : i \in Writers(p) /\ j \in Writers(p)
        /\ \A p \in 0..(AxisLength - 1) :
              /\ Cardinality(Writers(p)) = 1
              /\ \A j \in Writers(p) : result_spectrum.c[p] = spectra[j].s.c[p]

C1_Witness ==
    /\ pc = "assign" /\ NumEvents >= 2 /\ InUnit /\ StrictlyIncreasing
    /\ \E i, j \in DOMAIN bands : i # j /\ bands[i][1] < bands[i][2] /\ bands[j][1] < bands[j][2]

\* the slot the identity spectrum is in after sort_spectra
IdentitySlot == CHOOSE j \in DOMAIN spectra : spectra[j].id = 0

\* spectra is the list in its original order with slots 0 and k exchanged
SwappedWith(k) ==
    /\ k \in DOMAIN spectra
    /\ spectra[k].id = 0
    /\ spectra[0].id = k
    /\ \A j \in DOMAIN spectra : j \notin {0, k} => spectra[j].id = j

\* C2, as claimed: sort_spectra swaps slot 0 with slot k, k the smallest
\* 1-based index into times of a time > 0.5, or N if there is none.
C2_AsClaimed ==
    (Sorted /\ NumEvents >= 1) =>
        \E k \in 1..NumEvents :
            /\ SwappedWith(k)
            /\ \/ /\ 2 * T(k) > tden
                  /\ \A i \in 1..(k - 1) : 2 * T(i) <= tden
               \/ /\ k = NumEvents
                  /\ \A i \in 1..NumEvents : 2 * T(i) <= tden

\* C2, amended: sort_spectra swaps slot 0 with slot k - 1, k the smallest
\* 1-based index into times of a time > 0.5 (k - 1 is that time's 0-based
\* index), or with slot N if no time exceeds 0.5; the other slots stay.  For
\* N = 3 and times 1/4, 1/2, 3/4 the swap is with slot 2.
C2_CenterBand ==
    (Sorted /\ NumEvents >= 1) =>
        /\ \E k \in 1..(NumEvents + 1) :
            /\ SwappedWith(k - 1)
            /\ \/ /\ k <= NumEvents
                  /\ 2 * T(k) > tden
                  /\ \A i \in 1..(k - 1) : 2 * T(i) <= tden
               \/ /\ k = NumEvents + 1
                  /\ \A i \in 1..NumEvents : 2 * T(i) <= tden
        /\ (NumEvents = 3 /\ \A i \in 1..3 : 4 * T(i) = i * tden) => SwappedWith(2)

C2_Witness ==
    /\ pc = "splice" /\ NumEvents = 3 /\ InUnit /\ StrictlyIncreasing
    /\ 2 * T(2) <= tden /\ tden < 2 * T(3)
    /\ SwappedWith(2)

\* C3: for strictly increasing times inside (0,1), the slot j that holds the
\* identity spectrum after sort_spectra is the one whose time band
\* [t_j, t_(j+1)) contains 1/2, and add_artifact copies that slot into the
\* positions between the boundaries of t_j and t_(j+1).
C3_IdentityAtMidpoint ==
    (Sorted /\ InUnit /\ StrictlyIncreasing) =>
        /\ Cardinality({j \in DOMAIN spectra : spectra[j].id = 0}) = 1
        /\ 2 * T(IdentitySlot) <= tden
        /\ tden < 2 * T(IdentitySlot + 1)
        /\ Spliced =>
              /\ IsTruncation(bands[IdentitySlot][1], AxisLength * T(IdentitySlot), tden)
              /\ IsTruncation(bands[IdentitySlot][2], AxisLength * T(IdentitySlot + 1), tden)
              /\ \A p \in 0..(AxisLength - 1) :
                    (bands[IdentitySlot][1] <= p /\ p < bands[IdentitySlot][2]) =>
                        result_spectrum.c[p] = fourier_transform(image.array).c[p]

C3_Witness ==
    /\ pc = "assign" /\ NumEvents >= 2 /\ InUnit /\ StrictlyIncreasing
    /\ IdentitySlot \notin {0, NumEvents}
    /\ bands[IdentitySlot][1] < bands[IdentitySlot][2]
    /\ \A j \in DOMAIN images : j # 0 => images[j] # images[0]

C9_AsClaimed ==
    (Spliced /\ InUnit) =>
        /\ len(indices) = NumEvents + 1
        /\ indices[NumEvents] = AxisLength
        /\ \A i \in DOMAIN times : IsNearest(indices[i], AxisLength * times[i], tden)

\* the slots are paired in order with the boundaries
C9_Paired ==
    Spliced =>
        /\ len(indices) = NumEvents + 1
        /\ len(spectra) = NumEvents + 1
        /\ indices[NumEvents] = AxisLength
        /\ \A i \in DOMAIN times : IsTruncation(indices[i], AxisLength * times[i], tden)
        /\ DOMAIN bands = DOMAIN spectra
        /\ \A j \in DOMAIN bands :
              /\ bands[j][2] = indices[j]
              /\ bands[j][1] = IF j = 0 THEN 0 ELSE indices[j - 1]
        /\ (InUnit /\ Increasing) =>
              \A j \in DOMAIN bands : \A p \in 0..(AxisLength - 1) :
                  (bands[j][1] <= p /\ p < bands[j][2]) =>
                      result_spectrum.c[p] = spectra[j].s.c[p]

\* C9, amended: add_artifact uses N+1 boundaries, boundary[i] = times[i] * L
\* with the fraction cut off (truncation towards zero, not rounding) for
\* i = 1..N, followed by L; they are paired in order with the N+1 slots as
\* sort_spectra left them, and sort_spectra leaves times as it is.
C9_Boundaries == []C9_Paired /\ [][pc = "sort" => times' = times]_vars

C9_Witness ==
    /\ pc = "assign" /\ NumEvents >= 2 /\ InUnit /\ StrictlyIncreasing
    /\ IdentitySlot # 0
    /\ \E i \in DOMAIN times : ~ IsNearest(indices[i], AxisLength * times[i], tden)

(***************************************************************************)
(* Properties of apply_transform.                                          *)
(***************************************************************************)
\* the images the loop has passed that were transformed
Transformed ==
    {i \in DOMAIN sample : i < image_name /\ sample[i].type = INTENSITY}

\* apply_transform has returned from line 76
ShortCircuited ==
    /\ pc = "returned"
    /\ image_name < len(sample)

C4_Returned ==
    ShortCircuited =>
        /\ sample[image_name].params # None
        /\ sample[image_name].params.random_motion_do = FALSE
        /\ sample[image_name].params.random_motion_times = <<times, tden>>
        /\ sample[image_name].params.random_motion_degrees = degrees_params
        /\ sample[image_name].params.random_motion_translation = translation_params
        /\ \A i \in DOMAIN sample : i >= image_name => sample[i].data = sample_in[i].data
        /\ calls.rigid = Cardinality(Transformed)
        /\ calls.resample = num_transforms * Cardinality(Transformed)
        /\ calls.fourier = (num_transforms + 1) * Cardinality(Transformed)

C4_NeverWithProbabilityZero ==
    probability = 0 =>
        /\ pc # "params" => do_it = FALSE
        /\ pc \notin {"rigid", "artifact", "fourier", "sort", "splice", "inverse", "assign"}
        /\ calls = NoCalls
        /\ \A i \in DOMAIN sample : sample[i].data = sample_in[i].data

C4_Step ==
    (pc = "store" /\ ~ do_it) =>
        /\ pc' = "returned"
        /\ sample'[image_name].data = sample_in[image_name].data
        /\ sample'[image_name].params.random_motion_do = FALSE
        /\ UNCHANGED <<image, transforms, images, spectra, indices, bands,
                       result_spectrum, result_image, calls, rng_draws>>

\* C4: whenever the sampled decision is false, apply_transform returns with
\* the data of the image as it was passed in, the parameters stored with the
\* decision false, and no transform built, no image resampled and no spectrum
\* computed for it; with probability 0 the decision is false on every call.
C4_ShortCircuit ==
    [](C4_Returned /\ C4_NeverWithProbabilityZero) /\ [][C4_Step]_vars

C4_Witness ==
    /\ ShortCircuited
    /\ image_name = 1
    /\ num_transforms >= 1
    /\ Transformed = {0}
    /\ sample[0].data # sample_in[0].data
    /\ sample[1].params # None

(***************************************************************************)
(* Properties of get_params.                                               *)
(***************************************************************************)
Sampled == pc \in {"store", "raised"}

C6_AsClaimed ==
    (Sampled /\ num_transforms < 1) =>
        /\ error = "ConfigurationError"
        /\ rng_draws = 0
        /\ pc = "raised"

\* C10: for N >= 1 and a perturbation below 1/2 (0.3 is the default), the
\* times get_params returns lie strictly inside (0,1) and are strictly
\* increasing, so on an axis of any length the boundaries of add_artifact are
\* within the axis and do not decrease.
C10_ValidTimes ==
    (Sampled /\ num_transforms >= 1 /\ 2 * perturbation[1] < perturbation[2]) =>
        /\ error = NoError
        /\ len(times) = num_transforms
        /\ InUnit
        /\ StrictlyIncreasing
        /\ \A L \in 1..MaxL :
              LET idx == band_indices(L, times, tden) IN
              /\ \A j \in DOMAIN idx : 0 <= idx[j] /\ idx[j] <= L
              /\ \A i, j \in DOMAIN idx : i < j => idx[i] <= idx[j]

C10_Witness ==
    /\ pc = "store" /\ num_transforms >= 2 /\ perturbation = DefaultPerturbation
    /\ times[0] * (num_transforms + 1) > tden
    /\ times[1] * (num_transforms + 1) < 2 * tden

(***************************************************************************)
(* Properties of get_rigid_transforms.                                     *)
(***************************************************************************)
\* C8, as claimed: every transform of index 1..N that get_rigid_transforms
\* returns is the map of the transform built from the event, anchored at the
\* centre of the volume: it maps the centre c to c + translation[i-1], and
\* going through the 4 x 4 matrix does not change the map.
C8_AsClaimed ==
    (pc = "artifact" /\ degrees_params # None) =>
        /\ len(transforms) = len(degrees_params) + 1
        /\ Mapping(transforms[0]) = IdentityMapping
        /\ \A i \in 1..len(degrees_params) :
              LET c == center_lps(image) IN
              /\ TransformPoint(transforms[i], c) = VecAdd(c, VecScale(2, translation_params[i - 1]))
              /\ Mapping(transforms[i])
                    = Mapping(motion(degrees_params[i - 1], translation_params[i - 1], image))

====
